---- MODULE Spec2Model ----
(***************************************************************************)
(* State-machine model of cmd/tailscaled: package initialisation           *)
(* (shouldWrapNetstack), main and its subcommands, run, createEngine,      *)
(* tryEngine, mustStartNetstack, the signal-watcher goroutine, the SOCKS5  *)
(* serve goroutine and the deferred log flush (Spec, FairSpec,             *)
(* FairStartSpec); of trySynologyMigration over the two state files        *)
(* (MigrationSpec); and of the BIRD client of package chirp (ChirpSpec).   *)
(*                                                                         *)
(* Strings are sequences of tokens: the --tun value is a sequence over     *)
(* TunTokens, in which "," is the separator strings.Split cuts at, "tap:"  *)
(* stands for the four characters t,a,p,: and the other tokens stand for   *)
(* the character runs of their spelling.                                   *)
(***************************************************************************)
EXTENDS Integers, Sequences, FiniteSets, TLC

\* Longest --tun value, in tokens.
MaxTunLen == 3
\* Longest --tun value of the behaviours checked for liveness.
MaxLiveTunLen == 2

Comma == ","
UserspaceNetworking == "userspace-networking"
TapPrefix == "tap:"
TunTokens == {Comma, UserspaceNetworking, TapPrefix, "tailscale0"}

\* Values of TS_DEBUG_WRAP_NETSTACK ("" is unset or empty).
EnvValues == {"", "true", "0", "maybe"}
GOOSValues == {"linux", "freebsd", "windows"}
DistroValues == {"", "synology"}
\* Values of --socks5-server ("" is unset).
SocksAddrValues == {"", "localhost:0"}

Nil == [kind |-> "nil"]

VARIABLES
    tunname,        \* args.tunname
    socksAddr,      \* args.socksAddr
    envWrap,        \* os.Getenv("TS_DEBUG_WRAP_NETSTACK")
    goos,           \* runtime.GOOS
    distro,         \* distro.Get()
    service,        \* isWindowsService()
    sub,            \* main: sub, the first argument when main has read it
    fp,             \* main: *fp is "nil" or "set" once sub is looked up
    entryCalls,     \* calls of the alternate entry points, in order
    pol,            \* run: pol
    linkMon,        \* run: linkMon
    panicking,      \* the main goroutine is panicking
    wrapNetstack,   \* package variable wrapNetstack
    pc,             \* position of the main goroutine
    names,          \* createEngine: strings.Split(args.tunname, ",")
    idx,            \* createEngine: index of the range loop (1-based)
    errs,           \* createEngine: errs
    name,           \* tryEngine: name
    conf,           \* tryEngine: conf
    dev,            \* tryEngine: dev
    r,              \* tryEngine: r
    e,              \* createEngine, run: e
    useNetstack,    \* createEngine, run: useNetstack
    err,            \* run: err
    runErr,         \* the error run returned
    ns,             \* run: ns
    socksListener,  \* run: socksListener
    socksSrv,       \* the tssocks server of the serve goroutine
    ctxDone,        \* ctx of run is cancelled
    cancelCalls,    \* number of calls of cancel
    notified,       \* signal.Notify(interrupt, SIGINT, SIGTERM) is in effect
    interrupt,      \* number of signals buffered in the interrupt channel
    watcher,        \* position of the signal-watcher goroutine
    server,         \* state of ipnserver.Run
    serverEngine,   \* the engine ipnserver.Run was given
    flushed,        \* number of calls of pol.Shutdown
    flushHow,       \* state of the pol.Shutdown call
    exitCode,       \* exit status of the process, -1 while it runs
    open,           \* devices, routers, DNS configurators and engines now open
    closeLog,       \* resources closed, in order
    attempts,       \* candidates handed to tryEngine, in order
    calls,          \* constructor calls of the attempts, in order
    logs,           \* messages logged
    fs0,            \* the files when trySynologyMigration is called
    fs,             \* the files now
    migPc,          \* position in trySynologyMigration
    migRet,         \* the error trySynologyMigration returned
    fsOps,          \* system calls of trySynologyMigration, in order
    chirpPc,        \* position of the caller of package chirp
    conn,           \* the connection to the BIRD socket
    birdOut,        \* lines BIRD has yet to send on the connection
    birdIn,         \* commands written to the connection
    b,              \* the *BIRDClient chirp.New returned
    chirpRet        \* the error the last call of package chirp returned

inputs == <<tunname, socksAddr, envWrap, goos, distro, service>>
mainVars == <<sub, fp, entryCalls, pol, linkMon, panicking>>
migVars == <<fs0, fs, migPc, migRet, fsOps>>
chirpVars == <<conn, birdOut, birdIn, b, chirpRet, chirpPc>>
extVars == <<migVars, chirpVars>>
ceVars == <<names, idx, errs>>
tryVars == <<name, conf, dev, r>>
resVars == <<open, closeLog, attempts, calls>>
runVars == <<e, useNetstack, err, runErr, ns, socksListener, socksSrv>>
sigVars == <<ctxDone, cancelCalls, notified, interrupt, watcher>>
srvVars == <<server, serverEngine>>
flushVars == <<flushed, flushHow>>
daemonVars == <<inputs, mainVars, wrapNetstack, pc, ceVars, tryVars, resVars,
                runVars, sigVars, srvVars, flushVars, exitCode, logs>>
vars == <<tunname, socksAddr, envWrap, goos, distro, service, sub, fp,
          entryCalls, pol, linkMon, panicking, wrapNetstack, pc, names,
          idx, errs, name, conf, dev, r, e, useNetstack, err, runErr, ns,
          socksListener, socksSrv, ctxDone, cancelCalls, notified, interrupt,
          watcher, server, serverEngine, flushed, flushHow, exitCode,
          open, closeLog, attempts, calls, logs, fs0, fs, migPc, migRet,
          fsOps, chirpPc, conn, birdOut, birdIn, b, chirpRet>>

RECURSIVE SeqsUpTo(_, _)
SeqsUpTo(S, n) ==
    IF n = 0 THEN {<<>>}
    ELSE LET shorter == SeqsUpTo(S, n - 1)
         IN  shorter \cup {Append(s, x) : s \in {t \in shorter : Len(t) = n - 1}, x \in S}

TunNames == SeqsUpTo(TunTokens, MaxTunLen)

\* strings.Split(s, ","): the pieces of s between the separators; one more
\* piece than there are separators, empty pieces included.
RECURSIVE SplitAcc(_, _, _)
SplitAcc(s, cur, acc) ==
    IF s = <<>> THEN Append(acc, cur)
    ELSE IF Head(s) = Comma THEN SplitAcc(Tail(s), <<>>, Append(acc, cur))
    ELSE SplitAcc(Tail(s), Append(cur, Head(s)), acc)

Split(s) == SplitAcc(s, <<>>, <<>>)

\* name == "userspace-networking"
IsUserspaceNetworking(n) == n = <<UserspaceNetworking>>

\* strings.HasPrefix(name, "tap:")
HasTapPrefix(n) == Len(n) >= 1 /\ n[1] = TapPrefix

\* strconv.ParseBool on the values of EnvValues.
ParseBool(s) ==
    IF s \in {"1", "t", "T", "TRUE", "true", "True"} THEN [v |-> TRUE, ok |-> TRUE]
    ELSE IF s \in {"0", "f", "F", "FALSE", "false", "False"} THEN [v |-> FALSE, ok |-> TRUE]
    ELSE [v |-> FALSE, ok |-> FALSE]

\* shouldWrapNetstack consulting the platform before the environment.
shouldWrapNetstack_PlatformFirst(env, os, dist) ==
    IF dist = "synology" THEN [fatal |-> FALSE, v |-> TRUE]
    ELSE IF os \in {"windows", "darwin", "freebsd"} THEN [fatal |-> FALSE, v |-> TRUE]
    ELSE IF env # "" THEN
        IF ParseBool(env).ok THEN [fatal |-> FALSE, v |-> ParseBool(env).v]
        ELSE [fatal |-> TRUE, v |-> FALSE]
    ELSE [fatal |-> FALSE, v |-> FALSE]

\* shouldWrapNetstack: fatal for log.Fatalf, else v is the value it returns.
shouldWrapNetstack(env, os, dist) ==
    IF env # "" THEN
        IF ParseBool(env).ok THEN [fatal |-> FALSE, v |-> ParseBool(env).v]
        ELSE [fatal |-> TRUE, v |-> FALSE]
    ELSE IF dist = "synology" THEN [fatal |-> FALSE, v |-> TRUE]
    ELSE IF os \in {"windows", "darwin", "freebsd"} THEN [fatal |-> FALSE, v |-> TRUE]
    ELSE [fatal |-> FALSE, v |-> FALSE]

\* The environments the process is started in: Synology is a Linux
\* distribution; a valid override is set where it contradicts the platform
\* default, an invalid one on plain Linux. On Windows the process is the one
\* the service manager starts; elsewhere there is no service manager.
Environments ==
    {c \in [env : EnvValues, goos : GOOSValues, distro : DistroValues,
            service : BOOLEAN] :
        /\ c.distro = "synology" => c.goos = "linux"
        /\ c.env # "" => c.distro = ""
        /\ c.env = "0" => c.goos = "freebsd"
        /\ c.env \in {"true", "maybe"} => c.goos = "linux"
        /\ c.service <=> c.goos = "windows"}

\* Largest size of a state file, in bytes.
MaxFileSize == 1

\* os.Stat fails with ErrNotExist, or with another error.
Absent == [kind |-> "absent"]
Unreadable == [kind |-> "unreadable"]
\* Owners of a file: the package's user, or the user the process runs as.
Owners == {"package", "self"}
Files ==
    {Absent, Unreadable}
        \cup [kind : {"file"}, size : 0..MaxFileSize, owner : Owners]

\* trySynologyMigration has not been called.
MigrationIdle ==
    /\ fs0 = [new |-> Absent, old |-> Absent]
    /\ fs = fs0
    /\ migPc = "idle"
    /\ migRet = Nil
    /\ fsOps = <<>>

\* Package chirp is not in use.
ChirpIdle ==
    /\ conn = "none"
    /\ birdOut = <<>>
    /\ birdIn = <<>>
    /\ b = Nil
    /\ chirpRet = Nil
    /\ chirpPc = "idle"

\* The process before package initialisation, whatever its inputs.
DaemonStart ==
    /\ sub = ""
    /\ fp = "none"
    /\ entryCalls = <<>>
    /\ pol = Nil
    /\ linkMon = Nil
    /\ panicking = FALSE
    /\ wrapNetstack = FALSE
    /\ pc = "pkginit"
    /\ names = <<>>
    /\ idx = 0
    /\ errs = <<>>
    /\ name = <<>>
    /\ conf = Nil
    /\ dev = Nil
    /\ r = Nil
    /\ e = Nil
    /\ useNetstack = FALSE
    /\ err = Nil
    /\ runErr = Nil
    /\ ns = Nil
    /\ socksListener = Nil
    /\ socksSrv = Nil
    /\ ctxDone = FALSE
    /\ cancelCalls = 0
    /\ notified = FALSE
    /\ interrupt = 0
    /\ watcher = "none"
    /\ server = "none"
    /\ serverEngine = Nil
    /\ flushed = 0
    /\ flushHow = "none"
    /\ exitCode = -1
    /\ open = {}
    /\ closeLog = <<>>
    /\ attempts = <<>>
    /\ calls = <<>>
    /\ logs = <<>>

Init ==
    /\ tunname \in TunNames
    /\ socksAddr \in SocksAddrValues
    /\ \E c \in Environments :
         /\ envWrap = c.env
         /\ goos = c.goos
         /\ distro = c.distro
         /\ service = c.service
    /\ DaemonStart
    /\ MigrationIdle
    /\ ChirpIdle

\* The process is running: no goroutine takes a step after it exits.
Alive == exitCode = -1

\* log.Fatalf: os.Exit(1) at once, deferred calls do not run.
Fatal(where) ==
    /\ exitCode' = 1
    /\ pc' = "fatal"
    /\ logs' = Append(logs, where)

\* var wrapNetstack = shouldWrapNetstack()
PackageInit ==
    /\ Alive /\ pc = "pkginit"
    /\ LET w == shouldWrapNetstack(envWrap, goos, distro) IN
       IF w.fatal
       THEN /\ Fatal("invalid TS_DEBUG_WRAP_NETSTACK value")
            /\ UNCHANGED wrapNetstack
       ELSE /\ wrapNetstack' = w.v
            /\ pc' = "main"
            /\ UNCHANGED <<exitCode, logs>>
    /\ UNCHANGED <<inputs, mainVars, extVars, ceVars, tryVars, resVars, runVars, sigVars, srvVars,
                   flushVars>>

\* The keys of subCommands, lines 91-95.
SubCommandNames == {"install-system-daemon", "uninstall-system-daemon", "debug"}

\* os.Args[1]: a key of subCommands, or "" for no argument or one that is no
\* key.
Argv1Values == {""} \cup SubCommandNames

\* main going on to its flags after the handler has returned nil.
MainSubcommand_NoReturn ==
    /\ Alive /\ pc = "main"
    /\ \E a \in Argv1Values :
         /\ sub' = a
         /\ IF a \in SubCommandNames
            THEN \E set \in BOOLEAN :
                   IF ~set
                   THEN /\ fp' = "nil"
                        /\ Fatal("not available")
                        /\ UNCHANGED entryCalls
                   ELSE \E failed \in BOOLEAN :
                          /\ fp' = "set"
                          /\ entryCalls' = Append(entryCalls, [name |-> a, failed |-> failed])
                          /\ IF failed
                             THEN Fatal("subcommand failed")
                             ELSE pc' = "flags" /\ UNCHANGED <<exitCode, logs>>
            ELSE /\ fp' = "none"
                 /\ pc' = "flags"
                 /\ UNCHANGED <<entryCalls, exitCode, logs>>
    /\ UNCHANGED <<inputs, pol, linkMon, panicking, extVars, wrapNetstack, ceVars,
                   tryVars, resVars, runVars, sigVars, srvVars, flushVars>>

\* main, lines 118-131: the first argument is looked up in subCommands; a
\* nil handler is fatal, else the handler is called with the other arguments,
\* its error is fatal, and main returns.
MainSubcommand ==
    /\ Alive /\ pc = "main"
    /\ \E a \in Argv1Values :
         /\ sub' = a
         /\ IF a \in SubCommandNames
            THEN \E set \in BOOLEAN :
                   IF ~set
                   THEN /\ fp' = "nil"
                        /\ Fatal("not available")
                        /\ UNCHANGED entryCalls
                   ELSE \E failed \in BOOLEAN :
                          /\ fp' = "set"
                          /\ entryCalls' = Append(entryCalls, [name |-> a, failed |-> failed])
                          /\ IF failed
                             THEN Fatal("subcommand failed")
                             ELSE /\ exitCode' = 0
                                  /\ pc' = "exited"
                                  /\ UNCHANGED logs
            ELSE /\ fp' = "none"
                 /\ pc' = "flags"
                 /\ UNCHANGED <<entryCalls, exitCode, logs>>
    /\ UNCHANGED <<inputs, pol, linkMon, panicking, extVars, wrapNetstack, ceVars,
                   tryVars, resVars, runVars, sigVars, srvVars, flushVars>>

\* What main meets between the subcommands and run: the process is the
\* subprocess of the Windows service, non-flag arguments, --version, an empty
\* --socket, or none of these.
MainOutcomes == {"subprocess", "args", "version", "noSocket", "ok"}

\* main, lines 133-155; the process does not run on darwin.
MainFlags ==
    /\ Alive /\ pc = "flags"
    /\ \E out \in MainOutcomes :
         CASE out = "subprocess" ->
                /\ goos = "windows"
                /\ exitCode' = 0
                /\ pc' = "exited"
                /\ UNCHANGED logs
           [] out = "args" -> Fatal("tailscaled does not take non-flag arguments")
           [] out = "version" ->
                /\ exitCode' = 0
                /\ pc' = "exited"
                /\ UNCHANGED logs
           [] out = "noSocket" ->
                /\ goos # "windows"
                /\ Fatal("--socket is required")
           [] OTHER ->
                /\ pc' = "runPolicy"
                /\ UNCHANGED <<exitCode, logs>>
    /\ UNCHANGED <<inputs, mainVars, extVars, wrapNetstack, ceVars, tryVars,
                   resVars, runVars, sigVars, srvVars, flushVars>>

\* The LinkMonitor monitor.New returns (run, line 269).
LinkMon == [kind |-> "linkMon"]

\* run, lines 269-273: monitor.New, fatal when it fails.
RunStart ==
    /\ Alive /\ pc = "run"
    /\ \E ok \in BOOLEAN :
         IF ok
         THEN /\ linkMon' = LinkMon
              /\ pc' = "socksListen"
              /\ UNCHANGED <<exitCode, logs>>
         ELSE /\ Fatal("creating link monitor")
              /\ UNCHANGED linkMon
    /\ UNCHANGED <<inputs, sub, fp, entryCalls, pol, panicking, extVars, wrapNetstack, ceVars, tryVars, resVars, runVars,
                   sigVars, srvVars, flushVars>>

\* run, lines 275-287: net.Listen when --socks5-server is set.
SocksListen ==
    /\ Alive /\ pc = "socksListen"
    /\ IF socksAddr # ""
       THEN \E ok \in BOOLEAN :
              IF ok
              THEN /\ socksListener' = [kind |-> "listener", addr |-> socksAddr]
                   /\ pc' = "createEngine"
                   /\ UNCHANGED <<exitCode, logs>>
              ELSE /\ Fatal("SOCKS5 listener")
                   /\ UNCHANGED socksListener
       ELSE /\ pc' = "createEngine"
            /\ UNCHANGED <<socksListener, exitCode, logs>>
    /\ UNCHANGED <<inputs, mainVars, extVars, wrapNetstack, ceVars, tryVars, resVars, e,
                   useNetstack, err, runErr, ns, socksSrv, sigVars, srvVars,
                   flushVars>>

\* createEngine without the test of lines 342-344: the empty value is split
\* like any other.
createEngine_NoCheck ==
    /\ Alive /\ pc = "createEngine"
    /\ names' = Split(tunname)
    /\ idx' = 1
    /\ pc' = "range"
    /\ UNCHANGED <<inputs, mainVars, extVars, wrapNetstack, errs, tryVars, resVars, e, useNetstack,
                   err, runErr, ns, socksListener, socksSrv, sigVars, srvVars,
                   flushVars, exitCode, logs>>

\* createEngine, lines 342-346: the missing --tun value, else the split.
createEngine ==
    /\ Alive /\ pc = "createEngine"
    /\ IF tunname = <<>>
       THEN /\ e' = Nil
            /\ useNetstack' = FALSE
            /\ err' = [kind |-> "error", op |-> "no --tun value specified", at |-> 0]
            /\ pc' = "createEngineRet"
            /\ UNCHANGED <<names, idx>>
       ELSE /\ names' = Split(tunname)
            /\ idx' = 1
            /\ pc' = "range"
            /\ UNCHANGED <<e, useNetstack, err>>
    /\ UNCHANGED <<inputs, mainVars, extVars, wrapNetstack, errs, tryVars, resVars, runErr, ns,
                   socksListener, socksSrv, sigVars, srvVars, flushVars,
                   exitCode, logs>>

\* multierror.New(errs): the aggregate keeps the slice it is given.
multierrorNew(es) == [kind |-> "multierror", errors |-> es]

\* tryEngine without the useNetstack test of line 386.
tryEngineFirst_NoSkip(n) == "tstunNew"

\* tryEngine, lines 385-386: a candidate other than "userspace-networking"
\* starts with the tunnel device.
tryEngineFirst(n) == IF IsUserspaceNetworking(n) THEN "newEngine" ELSE "tstunNew"

\* createEngine, lines 346-348 and 355, and tryEngine, lines 381-386: the
\* next candidate's attempt starts, or the loop is over and all have failed.
createEngineRange ==
    /\ Alive /\ pc = "range"
    /\ IF idx > Len(names)
       THEN /\ e' = Nil
            /\ useNetstack' = FALSE
            /\ err' = multierrorNew(errs)
            /\ pc' = "createEngineRet"
            /\ UNCHANGED <<tryVars, attempts>>
       ELSE /\ name' = names[idx]
            /\ conf' = [ListenPort |-> "args.port", LinkMonitor |-> LinkMon,
                        Tun |-> Nil, IsTAP |-> FALSE, Router |-> Nil, DNS |-> Nil]
            /\ dev' = Nil
            /\ r' = Nil
            /\ attempts' = Append(attempts, names[idx])
            /\ pc' = tryEngineFirst(names[idx])
            /\ UNCHANGED <<e, useNetstack, err>>
    /\ UNCHANGED <<inputs, mainVars, extVars, wrapNetstack, ceVars, open, closeLog, calls, runErr,
                   ns, socksListener, socksSrv, sigVars, srvVars, flushVars,
                   exitCode, logs>>

\* An error of a constructor call of attempt idx.
ErrorOf(op) == [kind |-> "error", op |-> op, at |-> idx]

\* A constructor call of attempt idx.
Call(op, ok, c) == [op |-> op, at |-> idx, ok |-> ok, conf |-> c]

\* createEngine without the return on a nil error: the loop goes on to the
\* next candidate after a success.
tryEngineReturn_Continue(ev, un, ret) ==
    /\ e' = ev
    /\ useNetstack' = un
    /\ err' = ret
    /\ errs' = IF ret = Nil THEN errs ELSE Append(errs, ret)
    /\ idx' = idx + 1
    /\ pc' = "range"

\* createEngine collecting the errors in front of the slice.
tryEngineReturn_Prepend(ev, un, ret) ==
    /\ e' = ev
    /\ useNetstack' = un
    /\ err' = ret
    /\ IF ret = Nil
       THEN /\ pc' = "createEngineRet"
            /\ UNCHANGED <<idx, errs>>
       ELSE /\ errs' = <<ret>> \o errs
            /\ idx' = idx + 1
            /\ pc' = "range"

\* createEngine trying the failed candidate again.
tryEngineReturn_Retry(ev, un, ret) ==
    /\ e' = ev
    /\ useNetstack' = un
    /\ err' = ret
    /\ IF ret = Nil
       THEN /\ pc' = "createEngineRet"
            /\ UNCHANGED <<idx, errs>>
       ELSE /\ errs' = Append(errs, ret)
            /\ pc' = tryEngineFirst(name)
            /\ UNCHANGED idx

\* createEngine keeping useNetstack once an attempt has set it.
tryEngineReturn_KeepUse(ev, un, ret) ==
    /\ e' = ev
    /\ useNetstack' = (useNetstack \/ un)
    /\ err' = ret
    /\ IF ret = Nil
       THEN /\ pc' = "createEngineRet"
            /\ UNCHANGED <<idx, errs>>
       ELSE /\ errs' = Append(errs, ret)
            /\ idx' = idx + 1
            /\ pc' = "range"

\* tryEngine returns (ev, un, ret) to createEngine, lines 348-353: the named
\* results are assigned; a nil error ends createEngine, another is appended.
tryEngineReturn(ev, un, ret) ==
    /\ e' = ev
    /\ useNetstack' = un
    /\ err' = ret
    /\ IF ret = Nil
       THEN /\ pc' = "createEngineRet"
            /\ UNCHANGED <<idx, errs>>
       ELSE /\ errs' = Append(errs, ret)
            /\ idx' = idx + 1
            /\ pc' = "range"

\* tryEngine without the tap: branch of lines 393-397.
tryEngineAfterTun_Router(n) == "routerNew"

\* tryEngine, lines 393-399: with the device open, a tap: candidate goes on
\* to the engine, another to the router.
tryEngineAfterTun(n) == IF HasTapPrefix(n) THEN "newEngineTAP" ELSE "routerNew"

\* tryEngine, lines 387-397: tstun.New; on failure Diagnose and return.
tryEngineTun ==
    /\ Alive /\ pc = "tstunNew"
    /\ \E ok \in BOOLEAN :
         IF ok
         THEN LET d == [kind |-> "tun", at |-> idx] IN
              /\ dev' = d
              /\ conf' = [conf EXCEPT !.Tun = d, !.IsTAP = HasTapPrefix(name)]
              /\ open' = open \cup {d}
              /\ calls' = Append(calls, Call("tstun.New", TRUE, Nil))
              /\ pc' = tryEngineAfterTun(name)
              /\ UNCHANGED <<e, useNetstack, err, idx, errs, logs>>
         ELSE /\ calls' = Append(calls, Call("tstun.New", FALSE, Nil))
              /\ logs' = Append(logs, "tstun.Diagnose")
              /\ tryEngineReturn(Nil, FALSE, ErrorOf("tstun.New"))
              /\ UNCHANGED <<dev, conf, open>>
    /\ UNCHANGED <<inputs, mainVars, extVars, wrapNetstack, names, name, r, closeLog, attempts,
                   runErr, ns, socksListener, socksSrv, sigVars, srvVars,
                   flushVars, exitCode>>

\* tryEngine without the dev.Close() of line 401.
tryEngineRouter_NoClose ==
    /\ Alive /\ pc = "routerNew"
    /\ \E ok \in BOOLEAN :
         IF ok
         THEN LET rt == [kind |-> "router", at |-> idx] IN
              /\ r' = rt
              /\ open' = open \cup {rt}
              /\ calls' = Append(calls, Call("router.New", TRUE, Nil))
              /\ pc' = "dnsNew"
              /\ UNCHANGED <<e, useNetstack, err, idx, errs, closeLog>>
         ELSE /\ calls' = Append(calls, Call("router.New", FALSE, Nil))
              /\ tryEngineReturn(Nil, FALSE, ErrorOf("router.New"))
              /\ UNCHANGED <<r, open, closeLog>>
    /\ UNCHANGED <<inputs, mainVars, extVars, wrapNetstack, names, name, conf, dev, attempts,
                   runErr, ns, socksListener, socksSrv, sigVars, srvVars,
                   flushVars, exitCode, logs>>

\* tryEngine, lines 399-403: router.New; on failure the device is closed.
tryEngineRouter ==
    /\ Alive /\ pc = "routerNew"
    /\ \E ok \in BOOLEAN :
         IF ok
         THEN LET rt == [kind |-> "router", at |-> idx] IN
              /\ r' = rt
              /\ open' = open \cup {rt}
              /\ calls' = Append(calls, Call("router.New", TRUE, Nil))
              /\ pc' = "dnsNew"
              /\ UNCHANGED <<e, useNetstack, err, idx, errs, closeLog>>
         ELSE /\ calls' = Append(calls, Call("router.New", FALSE, Nil))
              /\ open' = open \ {dev}
              /\ closeLog' = Append(closeLog, dev)
              /\ tryEngineReturn(Nil, FALSE, ErrorOf("router.New"))
              /\ UNCHANGED r
    /\ UNCHANGED <<inputs, mainVars, extVars, wrapNetstack, names, name, conf, dev, attempts,
                   runErr, ns, socksListener, socksSrv, sigVars, srvVars,
                   flushVars, exitCode, logs>>

\* netstack.NewSubnetRouterWrapper
NewSubnetRouterWrapper(rt) == [kind |-> "subnetRouterWrapper", inner |-> rt]

\* tryEngine without the wrapNetstack branch of lines 410-412.
confRouter_Bare(rt, wrap) == rt

\* tryEngine, lines 409-412: the router conf gets.
confRouter(rt, wrap) == IF wrap THEN NewSubnetRouterWrapper(rt) ELSE rt

\* tryEngine, lines 404-412: dns.NewOSConfigurator; on failure the error is
\* returned as it is; on success conf gets the configurator and the router,
\* wrapped when wrapNetstack is set.
tryEngineDNS ==
    /\ Alive /\ pc = "dnsNew"
    /\ \E ok \in BOOLEAN :
         IF ok
         THEN LET d == [kind |-> "dns", at |-> idx] IN
              /\ conf' = [conf EXCEPT !.DNS = d,
                                       !.Router = confRouter(r, wrapNetstack)]
              /\ open' = open \cup {d}
              /\ calls' = Append(calls, Call("dns.NewOSConfigurator", TRUE, Nil))
              /\ pc' = "newEngine"
              /\ UNCHANGED <<e, useNetstack, err, idx, errs>>
         ELSE /\ calls' = Append(calls, Call("dns.NewOSConfigurator", FALSE, Nil))
              /\ tryEngineReturn(Nil, FALSE, ErrorOf("dns.NewOSConfigurator"))
              /\ UNCHANGED <<conf, open>>
    /\ UNCHANGED <<inputs, mainVars, extVars, wrapNetstack, names, name, dev, r, closeLog,
                   attempts, runErr, ns, socksListener, socksSrv, sigVars,
                   srvVars, flushVars, exitCode, logs>>

\* The resources a configuration hands to the engine.
RouterOf(rt) == IF rt.kind = "subnetRouterWrapper" THEN rt.inner ELSE rt

ConfResources(c) == {c.Tun, RouterOf(c.Router), c.DNS} \ {Nil}

RECURSIVE SeqOfSet(_)
SeqOfSet(S) ==
    IF S = {} THEN <<>>
    ELSE LET x == CHOOSE y \in S : TRUE IN <<x>> \o SeqOfSet(S \ {x})

\* wgengine.NewUserspaceEngine(logf, c): the engine takes over the resources
\* of c; when it fails it has released them, when it succeeds it is open.
NewUserspaceEngine(c, ok) ==
    IF ok
    THEN /\ open' = open \cup {[kind |-> "engine", at |-> idx]}
         /\ UNCHANGED closeLog
    ELSE /\ open' = open \ ConfResources(c)
         /\ closeLog' = closeLog \o SeqOfSet(ConfResources(c))

\* The engine NewUserspaceEngine returns for attempt idx.
EngineOf(c) == [kind |-> "engine", at |-> idx, conf |-> c]

\* tryEngine, lines 393-397: the tap: branch returns what the constructor
\* returned, with useNetstack false.
tryEngineTAP ==
    /\ Alive /\ pc = "newEngineTAP"
    /\ \E ok \in BOOLEAN :
         /\ NewUserspaceEngine(conf, ok)
         /\ calls' = Append(calls, Call("wgengine.NewUserspaceEngine", ok, conf))
         /\ IF ok
            THEN tryEngineReturn(EngineOf(conf), FALSE, Nil)
            ELSE tryEngineReturn(Nil, FALSE, ErrorOf("wgengine.NewUserspaceEngine"))
    /\ UNCHANGED <<inputs, mainVars, extVars, wrapNetstack, names, tryVars, attempts, runErr, ns,
                   socksListener, socksSrv, sigVars, srvVars, flushVars,
                   exitCode, logs>>

\* tryEngine, lines 414-418: the engine of a kernel or userspace candidate.
tryEngineNew ==
    /\ Alive /\ pc = "newEngine"
    /\ \E ok \in BOOLEAN :
         /\ NewUserspaceEngine(conf, ok)
         /\ calls' = Append(calls, Call("wgengine.NewUserspaceEngine", ok, conf))
         /\ IF ok
            THEN tryEngineReturn(EngineOf(conf), IsUserspaceNetworking(name), Nil)
            ELSE tryEngineReturn(Nil, IsUserspaceNetworking(name),
                                 ErrorOf("wgengine.NewUserspaceEngine"))
    /\ UNCHANGED <<inputs, mainVars, extVars, wrapNetstack, names, tryVars, attempts, runErr, ns,
                   socksListener, socksSrv, sigVars, srvVars, flushVars,
                   exitCode, logs>>

\* How pol.Shutdown finds the log uploads: going through and done before the
\* deadline, or blocked on an unreachable endpoint.
FlushStates == {"uploading", "blocked"}

\* The deferred function of run, lines 224-229, starts: pol.Shutdown is
\* called under a context with a deadline.
DeferredShutdown(how) ==
    /\ flushed' = flushed + 1
    /\ flushHow' = how
    /\ pc' = "flushing"

\* runWindowsService runs the service to its end without a step of run, and
\* returns nil or an error.
ServiceFails == {FALSE, TRUE}

\* logpolicy.New of run, line 222.
Policy == [kind |-> "policy"]

\* What run does once it is no Windows service: --cleanup, no --state and no
\* --kube-secret, or the daemon.
RunModes == {"cleanup", "cleanupPanic", "noState", "daemon"}

\* run without the return of line 238: the daemon follows the service.
RunPolicy_ServiceGoesOn ==
    /\ Alive /\ pc = "runPolicy"
    /\ pol' = Policy
    /\ IF service
       THEN \E failed \in ServiceFails :
              /\ entryCalls' = Append(entryCalls, [name |-> "runWindowsService",
                                                   failed |-> failed])
              /\ logs' = logs \o <<"Running service...">>
                              \o (IF failed THEN <<"runservice">> ELSE <<>>)
                              \o <<"Service ended.">>
              /\ pc' = "run"
              /\ UNCHANGED <<runErr, flushVars, panicking, exitCode>>
       ELSE \E mode \in RunModes :
              CASE mode = "cleanup" ->
                     /\ entryCalls' = Append(entryCalls, [name |-> "cleanup",
                                                          failed |-> FALSE])
                     /\ runErr' = Nil
                     /\ \E how \in FlushStates : DeferredShutdown(how)
                     /\ UNCHANGED <<panicking, exitCode, logs>>
                [] mode = "cleanupPanic" ->
                     /\ panicking' = TRUE
                     /\ logs' = Append(logs, "panic: TS_PLEASE_PANIC asked us to panic")
                     /\ \E how \in FlushStates : DeferredShutdown(how)
                     /\ UNCHANGED <<entryCalls, runErr, exitCode>>
                [] mode = "noState" ->
                     /\ Fatal("--state is required")
                     /\ UNCHANGED <<entryCalls, runErr, flushVars, panicking>>
                [] OTHER ->
                     /\ pc' = "run"
                     /\ UNCHANGED <<entryCalls, runErr, flushVars, panicking,
                                    exitCode, logs>>
    /\ UNCHANGED <<inputs, sub, fp, linkMon, extVars, wrapNetstack, ceVars,
                   tryVars, resVars, e, useNetstack, err, ns, socksListener,
                   socksSrv, sigVars, srvVars>>

\* run, lines 222-258: the log policy and its deferred Shutdown; the Windows
\* service, whose error is only logged; --cleanup, which panics when
\* TS_PLEASE_PANIC is set; the missing state path, which is fatal.
RunPolicy ==
    /\ Alive /\ pc = "runPolicy"
    /\ pol' = Policy
    /\ IF service
       THEN \E failed \in ServiceFails :
              /\ entryCalls' = Append(entryCalls, [name |-> "runWindowsService",
                                                   failed |-> failed])
              /\ logs' = logs \o <<"Running service...">>
                              \o (IF failed THEN <<"runservice">> ELSE <<>>)
                              \o <<"Service ended.">>
              /\ runErr' = Nil
              /\ \E how \in FlushStates : DeferredShutdown(how)
              /\ UNCHANGED <<panicking, exitCode>>
       ELSE \E mode \in RunModes :
              CASE mode = "cleanup" ->
                     /\ entryCalls' = Append(entryCalls, [name |-> "cleanup",
                                                          failed |-> FALSE])
                     /\ runErr' = Nil
                     /\ \E how \in FlushStates : DeferredShutdown(how)
                     /\ UNCHANGED <<panicking, exitCode, logs>>
                [] mode = "cleanupPanic" ->
                     /\ panicking' = TRUE
                     /\ logs' = Append(logs, "panic: TS_PLEASE_PANIC asked us to panic")
                     /\ \E how \in FlushStates : DeferredShutdown(how)
                     /\ UNCHANGED <<entryCalls, runErr, exitCode>>
                [] mode = "noState" ->
                     /\ Fatal("--state is required")
                     /\ UNCHANGED <<entryCalls, runErr, flushVars, panicking>>
                [] OTHER ->
                     /\ pc' = "run"
                     /\ UNCHANGED <<entryCalls, runErr, flushVars, panicking,
                                    exitCode, logs>>
    /\ UNCHANGED <<inputs, sub, fp, linkMon, extVars, wrapNetstack, ceVars,
                   tryVars, resVars, e, useNetstack, err, ns, socksListener,
                   socksSrv, sigVars, srvVars>>

\* run without the error test of lines 290-293.
RunEngineResult_IgnoreErr ==
    /\ Alive /\ pc = "createEngineRet"
    /\ pc' = "netstack"
    /\ UNCHANGED <<inputs, mainVars, extVars, wrapNetstack, ceVars, tryVars, resVars, runVars,
                   sigVars, srvVars, flushVars, exitCode, logs>>

\* run, lines 289-293: the result of createEngine; its error is logged and
\* returned, and the deferred function starts.
RunEngineResult ==
    /\ Alive /\ pc = "createEngineRet"
    /\ IF err # Nil
       THEN /\ logs' = Append(logs, "wgengine.New")
            /\ runErr' = err
            /\ \E how \in FlushStates : DeferredShutdown(how)
       ELSE /\ pc' = "netstack"
            /\ UNCHANGED <<logs, runErr, flushVars>>
    /\ UNCHANGED <<inputs, mainVars, extVars, wrapNetstack, ceVars, tryVars, resVars, e,
                   useNetstack, err, ns, socksListener, socksSrv, sigVars,
                   srvVars, exitCode>>

\* What mustStartNetstack meets: an engine that is no InternalsGetter (the
\* type assertion panics), GetInternals not ok, netstack.Create failing,
\* ns.Start failing, or the stack started.
NetstackOutcomes == {"panic", "unsupported", "createErr", "startErr", "ok"}

\* mustStartNetstack logging a Create or Start failure and returning nil.
mustStartNetstack_Degraded(en, onlySubnets, out) ==
    IF out = "ok"
    THEN /\ ns' = [kind |-> "netstack", e |-> en, onlySubnets |-> onlySubnets]
         /\ pc' = "socksServe"
         /\ UNCHANGED <<exitCode, logs, panicking, flushVars>>
    ELSE IF out = "panic"
    THEN /\ panicking' = TRUE
         /\ logs' = Append(logs, "panic: interface conversion")
         /\ \E how \in FlushStates : DeferredShutdown(how)
         /\ UNCHANGED <<ns, exitCode>>
    ELSE IF out = "unsupported"
    THEN /\ Fatal("is not a wgengine.InternalsGetter")
         /\ UNCHANGED <<ns, panicking, flushVars>>
    ELSE /\ logs' = Append(logs, IF out = "createErr" THEN "netstack.Create"
                                 ELSE "failed to start netstack")
         /\ pc' = "socksServe"
         /\ UNCHANGED <<ns, exitCode, panicking, flushVars>>

\* mustStartNetstack, lines 441-454, for engine en and outcome out.
mustStartNetstack(en, onlySubnets, out) ==
    IF out = "ok"
    THEN /\ ns' = [kind |-> "netstack", e |-> en, onlySubnets |-> onlySubnets]
         /\ pc' = "socksServe"
         /\ UNCHANGED <<exitCode, logs, panicking, flushVars>>
    ELSE IF out = "panic"
    THEN /\ panicking' = TRUE
         /\ logs' = Append(logs, "panic: interface conversion")
         /\ \E how \in FlushStates : DeferredShutdown(how)
         /\ UNCHANGED <<ns, exitCode>>
    ELSE /\ Fatal(CASE out = "unsupported" -> "is not a wgengine.InternalsGetter"
                    [] out = "createErr" -> "netstack.Create"
                    [] OTHER -> "failed to start netstack")
         /\ UNCHANGED <<ns, panicking, flushVars>>

\* run without the useNetstack test of line 297.
onlySubnets_WrapOnly(wrap, un) == wrap

\* run, line 297: onlySubnets := wrapNetstack && !useNetstack
onlySubnets(wrap, un) == wrap /\ ~un

\* run, lines 295-299.
RunNetstack ==
    /\ Alive /\ pc = "netstack"
    /\ IF useNetstack \/ wrapNetstack
       THEN \E out \in NetstackOutcomes :
              mustStartNetstack(e, onlySubnets(wrapNetstack, useNetstack), out)
       ELSE /\ pc' = "socksServe"
            /\ UNCHANGED <<ns, exitCode, logs, panicking, flushVars>>
    /\ UNCHANGED <<inputs, sub, fp, entryCalls, pol, linkMon, extVars,
                   wrapNetstack, ceVars, tryVars, resVars, e, useNetstack, err,
                   runErr, socksListener, socksSrv, sigVars, srvVars>>

\* run, lines 301-306: the SOCKS5 server over e and ns, served in a goroutine.
RunSocksServe ==
    /\ Alive /\ pc = "socksServe"
    /\ socksSrv' = IF socksListener # Nil
                   THEN [kind |-> "tssocks", e |-> e, ns |-> ns]
                   ELSE socksSrv
    /\ pc' = "watchdog"
    /\ UNCHANGED <<inputs, mainVars, extVars, wrapNetstack, ceVars, tryVars, resVars, e,
                   useNetstack, err, runErr, ns, socksListener, sigVars,
                   srvVars, flushVars, exitCode, logs>>

\* run, line 304: srv.Serve returns, which is fatal.
SocksServeExits ==
    /\ Alive /\ socksSrv # Nil
    /\ Fatal("SOCKS5 server exited")
    /\ UNCHANGED <<inputs, mainVars, extVars, wrapNetstack, ceVars, tryVars, resVars, runVars,
                   sigVars, srvVars, flushVars>>

\* wgengine.NewWatchdog
NewWatchdog(en) == [kind |-> "watchdog", inner |-> en]

\* run without line 308: the engine goes on unwrapped.
RunWatchdog_Skip ==
    /\ Alive /\ pc = "watchdog"
    /\ pc' = "notify"
    /\ UNCHANGED <<inputs, mainVars, extVars, wrapNetstack, ceVars, tryVars, resVars, runVars,
                   sigVars, srvVars, flushVars, exitCode, logs>>

\* run, line 308.
RunWatchdog ==
    /\ Alive /\ pc = "watchdog"
    /\ e' = NewWatchdog(e)
    /\ pc' = "notify"
    /\ UNCHANGED <<inputs, mainVars, extVars, wrapNetstack, ceVars, tryVars, resVars, useNetstack,
                   err, runErr, ns, socksListener, socksSrv, sigVars, srvVars,
                   flushVars, exitCode, logs>>

\* run, lines 310-318: the context, the interrupt channel and signal.Notify.
RunNotify ==
    /\ Alive /\ pc = "notify"
    /\ notified' = TRUE
    /\ pc' = "goWatcher"
    /\ UNCHANGED <<inputs, mainVars, extVars, wrapNetstack, ceVars, tryVars, resVars, runVars,
                   ctxDone, cancelCalls, interrupt, watcher, srvVars,
                   flushVars, exitCode, logs>>

\* run with the channel made by the watcher goroutine: what was delivered
\* before the goroutine starts is not in it.
RunGoWatcher_FreshChannel ==
    /\ Alive /\ pc = "goWatcher"
    /\ watcher' = "select"
    /\ interrupt' = 0
    /\ pc' = "ipnRun"
    /\ UNCHANGED <<inputs, mainVars, extVars, wrapNetstack, ceVars, tryVars,
                   resVars, runVars, ctxDone, cancelCalls, notified, srvVars,
                   flushVars, exitCode, logs>>

\* run, line 319: the watcher goroutine is started.
RunGoWatcher ==
    /\ Alive /\ pc = "goWatcher"
    /\ watcher' = "select"
    /\ pc' = "ipnRun"
    /\ UNCHANGED <<inputs, mainVars, extVars, wrapNetstack, ceVars, tryVars, resVars, runVars,
                   ctxDone, cancelCalls, notified, interrupt, srvVars,
                   flushVars, exitCode, logs>>

\* A SIGINT or SIGTERM reaches the process while signal.Notify is in effect:
\* it is put in the channel of capacity 1 (line 313), or dropped when the
\* channel is full.
Signal ==
    /\ Alive /\ notified
    /\ interrupt' = IF interrupt < 1 THEN interrupt + 1 ELSE interrupt
    /\ UNCHANGED <<inputs, mainVars, extVars, wrapNetstack, pc, ceVars, tryVars, resVars, runVars,
                   ctxDone, cancelCalls, notified, watcher, srvVars, flushVars,
                   exitCode, logs>>

\* The watcher goroutine with the select in a loop: it waits again after
\* cancel.
WatcherSignal_Loop ==
    /\ Alive /\ watcher = "select"
    /\ interrupt > 0
    /\ interrupt' = interrupt - 1
    /\ logs' = Append(logs, "tailscaled got signal")
    /\ cancelCalls' = cancelCalls + 1
    /\ ctxDone' = TRUE
    /\ UNCHANGED <<inputs, mainVars, extVars, wrapNetstack, pc, ceVars, tryVars, resVars, runVars,
                   notified, watcher, srvVars, flushVars, exitCode>>

\* The watcher goroutine, lines 320-323: a signal is received, logged, and
\* cancel is called; the goroutine ends.
WatcherSignal ==
    /\ Alive /\ watcher = "select"
    /\ interrupt > 0
    /\ interrupt' = interrupt - 1
    /\ logs' = Append(logs, "tailscaled got signal")
    /\ cancelCalls' = cancelCalls + 1
    /\ ctxDone' = TRUE
    /\ watcher' = "done"
    /\ UNCHANGED <<inputs, mainVars, extVars, wrapNetstack, pc, ceVars, tryVars, resVars, runVars,
                   notified, srvVars, flushVars, exitCode>>

\* run, lines 329-331: ipnserver.Run is called with ctx and the engine.
RunIpnServer ==
    /\ Alive /\ pc = "ipnRun"
    /\ server' = "running"
    /\ serverEngine' = e
    /\ pc' = "inServer"
    /\ UNCHANGED <<inputs, mainVars, extVars, wrapNetstack, ceVars, tryVars, resVars, runVars,
                   sigVars, flushVars, exitCode, logs>>

\* context.Canceled
Canceled == [kind |-> "error", op |-> "context.Canceled", at |-> 0]

\* An error that wraps context.Canceled (fmt.Errorf with %w): errors.Is finds
\* context.Canceled in it, == does not.
WrappedCanceled == [kind |-> "error", op |-> "wraps context.Canceled", at |-> 0]

\* What ipnserver.Run may return: nil or an error of its own at any time,
\* ctx.Err() or an error wrapping it once ctx is cancelled.
ServerReturns ==
    {Nil, [kind |-> "error", op |-> "ipnserver", at |-> 0]}
        \cup (IF ctxDone THEN {Canceled, WrappedCanceled} ELSE {})

\* run, lines 333-338: the error run returns for the server's error.
RunResult(ret) == IF ret # Nil /\ ret # Canceled THEN ret ELSE Nil

\* ipnserver.Run returns ret and run evaluates it, lines 331-338.
ServerReturn ==
    /\ Alive /\ pc = "inServer"
    /\ \E ret \in ServerReturns :
         /\ err' = ret
         /\ runErr' = RunResult(ret)
         /\ logs' = IF RunResult(ret) # Nil THEN Append(logs, "ipnserver.Run") ELSE logs
    /\ server' = "returned"
    /\ \E how \in FlushStates : DeferredShutdown(how)
    /\ UNCHANGED <<inputs, mainVars, extVars, wrapNetstack, ceVars, tryVars, resVars, e,
                   useNetstack, ns, socksListener, socksSrv, sigVars,
                   serverEngine, exitCode>>

\* main, lines 157-165: the exit status for the error run returned.
MainExit(rerr) ==
    /\ exitCode' = IF rerr # Nil THEN 1 ELSE 0
    /\ pc' = "stopped"

\* The deferred function of run has returned: run returns to main, or the
\* panic ends the process with status 2.
RunEnds ==
    IF panicking
    THEN exitCode' = 2 /\ pc' = "panic"
    ELSE MainExit(runErr)

\* pol.Shutdown returns because the uploads are done.
FlushDone ==
    /\ Alive /\ pc = "flushing"
    /\ flushHow = "uploading"
    /\ flushHow' = "done"
    /\ RunEnds
    /\ UNCHANGED <<inputs, mainVars, extVars, wrapNetstack, ceVars, tryVars, resVars, runVars,
                   sigVars, srvVars, flushed, logs>>

\* pol.Shutdown under context.Background(): no deadline, the call stays
\* blocked.
FlushDeadline_Never ==
    /\ Alive /\ pc = "flushing"
    /\ flushHow = "blocked"
    /\ UNCHANGED vars

\* pol.Shutdown returns because the deadline of line 226 has passed before
\* the uploads were done.
FlushDeadline ==
    /\ Alive /\ pc = "flushing"
    /\ flushHow = "blocked"
    /\ flushHow' = "deadline"
    /\ RunEnds
    /\ UNCHANGED <<inputs, mainVars, extVars, wrapNetstack, ceVars, tryVars, resVars, runVars,
                   sigVars, srvVars, flushed, logs>>

Next ==
    \/ PackageInit
    \/ MainSubcommand
    \/ MainFlags
    \/ RunPolicy
    \/ RunStart
    \/ SocksListen
    \/ createEngine
    \/ createEngineRange
    \/ tryEngineTun
    \/ tryEngineRouter
    \/ tryEngineDNS
    \/ tryEngineTAP
    \/ tryEngineNew
    \/ RunEngineResult
    \/ RunNetstack
    \/ RunSocksServe
    \/ SocksServeExits
    \/ RunWatchdog
    \/ RunNotify
    \/ RunGoWatcher
    \/ Signal
    \/ WatcherSignal
    \/ RunIpnServer
    \/ ServerReturn
    \/ FlushDone
    \/ FlushDeadline

Spec == Init /\ [][Next]_vars

\* The start of the behaviours checked for liveness: as Init, with the --tun
\* value of at most MaxLiveTunLen tokens.
InitLive == Init /\ Len(tunname) <= MaxLiveTunLen

\* The Go scheduler runs the watcher goroutine when a signal is in its
\* channel; ipnserver.Run returns ctx.Err() once ctx is cancelled; the call of
\* pol.Shutdown ends when the uploads are done or at the deadline of its
\* context.
FairSpec ==
    /\ InitLive
    /\ [][Next]_vars
    /\ WF_vars(WatcherSignal)
    /\ WF_vars(ServerReturn /\ err' = Canceled)
    /\ WF_vars(FlushDone \/ FlushDeadline)

\* As FairSpec, and the main goroutine goes on from signal.Notify to the
\* call of ipnserver.Run: the two statements between them do not block.
FairStartSpec ==
    /\ FairSpec
    /\ WF_vars(RunGoWatcher)
    /\ WF_vars(RunIpnServer)

\* trySynologyMigration is called with the state path, whatever the files
\* at the new and the old path are; the daemon is as it is when it starts.
InitMigration ==
    /\ tunname = <<>>
    /\ socksAddr = ""
    /\ \E c \in Environments :
         /\ c.env = ""
         /\ envWrap = c.env
         /\ goos = c.goos
         /\ distro = c.distro
         /\ service = c.service
    /\ DaemonStart
    /\ ChirpIdle
    /\ fs0 \in [new : Files, old : Files]
    /\ fs = fs0
    /\ migPc = "call"
    /\ migRet = Nil
    /\ fsOps = <<>>

\* The errors of os.Stat, os.Chown and os.Rename.
ErrNotExist == [kind |-> "error", op |-> "ErrNotExist"]
ErrPermission == [kind |-> "error", op |-> "ErrPermission"]
ErrChown == [kind |-> "error", op |-> "chown"]
ErrRename == [kind |-> "error", op |-> "rename"]

\* The error of os.Stat for a file.
StatErr(f) ==
    IF f.kind = "file" THEN Nil
    ELSE IF f.kind = "absent" THEN ErrNotExist
    ELSE ErrPermission

\* os.IsNotExist
IsNotExist(x) == x = ErrNotExist

\* trySynologyMigration, lines 169-176: the platform test, os.Stat(p) and
\* the test of its result, in which && binds tighter than ||.
MigrationStatNew ==
    /\ migPc = "call"
    /\ IF goos # "linux" \/ distro # "synology"
       THEN /\ migRet' = Nil
            /\ migPc' = "ret"
            /\ UNCHANGED fsOps
       ELSE LET x == StatErr(fs.new) IN
            /\ fsOps' = Append(fsOps, "stat new")
            /\ IF (x = Nil /\ fs.new.size > 0) \/ ~IsNotExist(x)
               THEN migRet' = x /\ migPc' = "ret"
               ELSE migPc' = "statOld" /\ UNCHANGED migRet
    /\ UNCHANGED <<daemonVars, chirpVars, fs0, fs>>

\* trySynologyMigration, lines 179-185: os.Stat(oldPath).
MigrationStatOld ==
    /\ migPc = "statOld"
    /\ fsOps' = Append(fsOps, "stat old")
    /\ LET x == StatErr(fs.old) IN
       IF x # Nil
       THEN /\ migRet' = IF IsNotExist(x) THEN Nil ELSE x
            /\ migPc' = "ret"
       ELSE /\ migPc' = "chown"
            /\ UNCHANGED migRet
    /\ UNCHANGED <<daemonVars, chirpVars, fs0, fs>>

\* trySynologyMigration, lines 187-189: os.Chown(oldPath, uid, gid).
MigrationChown ==
    /\ migPc = "chown"
    /\ fsOps' = Append(fsOps, "chown")
    /\ \E ok \in BOOLEAN :
         IF ok
         THEN /\ fs' = [fs EXCEPT !.old.owner = "self"]
              /\ migPc' = "rename"
              /\ UNCHANGED migRet
         ELSE /\ migRet' = ErrChown
              /\ migPc' = "ret"
              /\ UNCHANGED fs
    /\ UNCHANGED <<daemonVars, chirpVars, fs0>>

\* trySynologyMigration, lines 190-193: os.Rename(oldPath, p).
MigrationRename ==
    /\ migPc = "rename"
    /\ fsOps' = Append(fsOps, "rename")
    /\ \E ok \in BOOLEAN :
         IF ok
         THEN /\ fs' = [new |-> fs.old, old |-> Absent]
              /\ migRet' = Nil
         ELSE /\ migRet' = ErrRename
              /\ UNCHANGED fs
    /\ migPc' = "ret"
    /\ UNCHANGED <<daemonVars, chirpVars, fs0>>

NextMigration ==
    \/ MigrationStatNew
    \/ MigrationStatOld
    \/ MigrationChown
    \/ MigrationRename

MigrationSpec == InitMigration /\ [][NextMigration]_vars

\* Most lines BIRD sends before it closes the connection.
MaxBirdLines == 3
\* Most commands a caller writes to one connection.
MaxCommands == 2

\* Lines BIRD sends: its welcome message, its answers to "disable p" and
\* "enable p", and an answer that is none of these.
BirdLines ==
    {"0001 BIRD ready.", "p: disabled", "p: already disabled", "p: enabled",
     "p: already enabled", "syntax error"}

\* chirp.New is called for a socket on which BIRD, if it accepts the
\* connection, sends up to MaxBirdLines lines.
InitChirp ==
    /\ tunname = <<>>
    /\ socksAddr = ""
    /\ envWrap = ""
    /\ goos = "linux"
    /\ distro = ""
    /\ service = FALSE
    /\ DaemonStart
    /\ MigrationIdle
    /\ conn = "none"
    /\ birdOut \in SeqsUpTo(BirdLines, MaxBirdLines)
    /\ birdIn = <<>>
    /\ b = Nil
    /\ chirpRet = Nil
    /\ chirpPc = "new"

ErrDial == [kind |-> "error", op |-> "failed to connect to BIRD"]
ErrRead == [kind |-> "error", op |-> "reading response from bird failed"]
ErrWrite == [kind |-> "error", op |-> "write"]
ErrClosed == [kind |-> "error", op |-> "use of closed network connection"]

\* readLine, lines 78-86: scanner.Scan fails at the end of the input and on
\* a read error; else the line is taken from the input.
readLine(scanned) ==
    IF scanned /\ birdOut # <<>>
    THEN [line |-> Head(birdOut), err |-> Nil, rest |-> Tail(birdOut)]
    ELSE [line |-> "", err |-> ErrRead, rest |-> birdOut]

\* New, lines 20-31: net.Dial, the client, and the welcome line read and
\* discarded.
ChirpNew ==
    /\ chirpPc = "new"
    /\ \E dialed, scanned \in BOOLEAN :
         IF ~dialed
         THEN /\ ~scanned
              /\ chirpRet' = ErrDial
              /\ b' = Nil
              /\ chirpPc' = "failed"
              /\ UNCHANGED <<conn, birdOut>>
         ELSE /\ conn' = "open"
              /\ LET l == readLine(scanned) IN
                 /\ birdOut' = l.rest
                 /\ chirpRet' = l.err
                 /\ b' = IF l.err # Nil THEN Nil ELSE [kind |-> "BIRDClient"]
                 /\ chirpPc' = IF l.err # Nil THEN "failed" ELSE "ready"
    /\ UNCHANGED <<daemonVars, migVars, birdIn>>

\* exec, lines 71-76, and the test of its output: the command is written
\* and a line is read; the call returns nil when the line is one of good.
ChirpExec(cmd, good) ==
    /\ Len(birdIn) < MaxCommands
    /\ \E scanned \in BOOLEAN :
         IF conn # "open"
         THEN /\ ~scanned
              /\ chirpRet' = ErrWrite
              /\ UNCHANGED <<birdIn, birdOut>>
         ELSE /\ birdIn' = Append(birdIn, cmd)
              /\ LET l == readLine(scanned) IN
                 /\ birdOut' = l.rest
                 /\ chirpRet' = IF l.err # Nil THEN l.err
                                 ELSE IF l.line \in good THEN Nil
                                 ELSE [kind |-> "error", op |-> "failed to " \o cmd]
    /\ UNCHANGED <<daemonVars, migVars, conn, b, chirpPc>>

\* DisableProtocol, lines 44-55.
ChirpDisableProtocol ==
    /\ chirpPc = "ready"
    /\ ChirpExec("disable p", {"p: already disabled", "p: disabled"})

\* EnableProtocol, lines 58-69.
ChirpEnableProtocol ==
    /\ chirpPc = "ready"
    /\ ChirpExec("enable p", {"p: already enabled", "p: enabled"})

\* Close, line 41.
ChirpClose ==
    /\ chirpPc = "ready"
    /\ conn' = "closed"
    /\ chirpRet' = IF conn = "open" THEN Nil ELSE ErrClosed
    /\ UNCHANGED <<daemonVars, migVars, birdOut, birdIn, b, chirpPc>>

NextChirp ==
    \/ ChirpNew
    \/ ChirpDisableProtocol
    \/ ChirpEnableProtocol
    \/ ChirpClose

ChirpSpec == InitChirp /\ [][NextChirp]_vars

\* The engine under the watchdog of run, line 308.
Engine(en) == IF en.kind = "watchdog" THEN en.inner ELSE en

EngineCalls == {i \in 1..Len(calls) : calls[i].op = "wgengine.NewUserspaceEngine"}

Logged(m) == \E i \in 1..Len(logs) : logs[i] = m

\* C1: createEngine hands the candidates to tryEngine in list order, and once
\* an engine is returned it is the engine of the last candidate attempted:
\* every candidate before it has failed and left its error, the successful
\* constructor call is the last call made, and no later candidate is
\* attempted or opened however far the program runs.
C1_FirstSuccessWins ==
    LET k == Len(attempts) IN
    /\ k <= Len(Split(tunname))
    /\ attempts = SubSeq(Split(tunname), 1, k)
    /\ e # Nil =>
         /\ k >= 1
         /\ Engine(e).kind = "engine"
         /\ Engine(e).at = k
         /\ [kind |-> "engine", at |-> k] \in open
         /\ Len(errs) = k - 1
         /\ \A j \in 1..(k - 1) : errs[j].at = j
         /\ \A i \in EngineCalls : calls[i].ok <=> i = Len(calls)
         /\ \A i \in 1..Len(calls) : calls[i].at <= k
         /\ \A x \in open : x.at <= k

\* C1 witness: of three candidates the first has failed, the second is the
\* engine returned and the third was never attempted.
C1_Witness ==
    /\ Len(Split(tunname)) = 3
    /\ e # Nil
    /\ Engine(e).at = 2
    /\ Len(errs) = 1
    /\ pc = "stopped"

\* C2: at the start of every attempt the set of open resources is back to
\* its baseline: every device, router and DNS configurator of the failed
\* attempts before it has been released.
C2_ReleasedBeforeNextAttempt ==
    (pc = "range" /\ idx <= Len(names)) => open = {}

\* C3: when every candidate has failed createEngine returns no engine and
\* the aggregate of the errors, one per candidate, the i-th being the error of
\* the failing constructor call of the i-th candidate of the list.
C3_AggregateError ==
    /\ (pc = "createEngineRet" /\ names # <<>> /\ Len(errs) = Len(names)) =>
           err.kind = "multierror"
    /\ err.kind = "multierror" =>
         /\ e = Nil
         /\ attempts = Split(tunname)
         /\ Len(err.errors) = Len(attempts)
         /\ \A i \in 1..Len(err.errors) :
              /\ err.errors[i].kind = "error"
              /\ err.errors[i].at = i
              /\ \E j \in 1..Len(calls) :
                   /\ calls[j].at = i
                   /\ ~calls[j].ok
                   /\ calls[j].op = err.errors[i].op

\* C3 witness: three candidates failed at three different steps and
\* createEngine has returned the aggregate.
C3_Witness ==
    /\ err.kind = "multierror"
    /\ Len(err.errors) = 3
    /\ err.errors[1].op = "tstun.New"
    /\ err.errors[2].op = "dns.NewOSConfigurator"
    /\ err.errors[3].op = "wgengine.NewUserspaceEngine"

\* C4: the only constructor called in an attempt for "userspace-networking"
\* is the engine's, with a configuration that holds the listen port and the
\* LinkMonitor and no device, router or DNS configurator; no device, router
\* or DNS configurator of such an attempt is ever open.
C4_UserspaceNoKernel ==
    /\ \A i \in 1..Len(calls) :
         attempts[calls[i].at] = <<UserspaceNetworking>> =>
           /\ calls[i].op = "wgengine.NewUserspaceEngine"
           /\ calls[i].conf = [ListenPort |-> "args.port", LinkMonitor |-> LinkMon,
                               Tun |-> Nil, IsTAP |-> FALSE, Router |-> Nil,
                               DNS |-> Nil]
    /\ \A x \in open :
         attempts[x.at] = <<UserspaceNetworking>> => x.kind = "engine"

\* C4 witness: a "userspace-networking" attempt has created its engine after
\* a kernel candidate failed.
C4_Witness ==
    \E i \in EngineCalls :
        /\ calls[i].ok
        /\ calls[i].at = 2
        /\ attempts[2] = <<UserspaceNetworking>>

\* C5: an attempt for a tap: candidate calls tstun.New and then, when the
\* device is open, the engine constructor with that device in link-layer
\* mode; it calls neither router.New nor dns.NewOSConfigurator, whether the
\* engine is created or not.
C5_TapNoRouterDNS ==
    \A i \in 1..Len(calls) :
        LET c == calls[i] IN
        (Len(attempts[c.at]) >= 1 /\ attempts[c.at][1] = TapPrefix) =>
          /\ c.op \in {"tstun.New", "wgengine.NewUserspaceEngine"}
          /\ c.op = "wgengine.NewUserspaceEngine" =>
               /\ c.conf.IsTAP
               /\ c.conf.Tun = [kind |-> "tun", at |-> c.at]
               /\ c.conf.Router = Nil
               /\ c.conf.DNS = Nil
               /\ i > 1
               /\ calls[i - 1] = [op |-> "tstun.New", at |-> c.at, ok |-> TRUE,
                                  conf |-> Nil]

\* C5 witness: one tap: attempt has failed at the engine and the next has
\* created its engine.
C5_Witness ==
    /\ Len(attempts) = 2
    /\ HasTapPrefix(attempts[1])
    /\ HasTapPrefix(attempts[2])
    /\ \E i, j \in EngineCalls :
         /\ calls[i].at = 1 /\ ~calls[i].ok
         /\ calls[j].at = 2 /\ calls[j].ok

\* The candidates composed over a kernel IP tunnel: neither
\* "userspace-networking" nor tap:.
KernelIP(n) == n # <<UserspaceNetworking>> /\ ~(Len(n) >= 1 /\ n[1] = TapPrefix)

\* C6: the configuration a kernel IP-tunnel candidate hands to the engine
\* holds, when wrapNetstack is set, the subnet-router wrapper around the
\* router of that attempt, and the router itself when it is not set; the
\* engine run keeps has that configuration.
C6_RouterWrapped ==
    /\ \A i \in EngineCalls :
         LET c == calls[i]
             base == [kind |-> "router", at |-> c.at]
         IN  KernelIP(attempts[c.at]) =>
               c.conf.Router = IF wrapNetstack
                               THEN [kind |-> "subnetRouterWrapper", inner |-> base]
                               ELSE base
    /\ (e # Nil /\ KernelIP(attempts[Len(attempts)])) =>
         Engine(e).conf = calls[Len(calls)].conf

\* C6 witness: with wrapNetstack set, a kernel candidate's engine is running
\* under the server with the wrapper as its router.
C6_Witness ==
    /\ wrapNetstack
    /\ server = "running"
    /\ KernelIP(attempts[Len(attempts)])
    /\ Engine(serverEngine).conf.Router.kind = "subnetRouterWrapper"
    /\ Engine(serverEngine).conf.Router.inner \in open

\* The netstack mode run has resolved.
Mode ==
    IF ns = Nil THEN "None"
    ELSE IF ns.onlySubnets THEN "SubnetOnly" ELSE "FullTakeover"

\* run is past lines 295-299.
NetstackResolved == pc \in {"socksServe", "watchdog"} \/ e.kind = "watchdog"

\* C7 as claimed: an override that disables wrapping is not overruled by the
\* transport selected, so with it no userspace stack is started.
C7_OverrideDecidesAlone ==
    (NetstackResolved /\ envWrap # "" /\ ~ParseBool(envWrap).v) => Mode = "None"

\* C7 as amended: the override, or without one the platform default, decides
\* wrapNetstack and nothing else; a selected "userspace-networking" gives
\* FullTakeover whatever wrapNetstack is, another transport gives SubnetOnly
\* when wrapNetstack is set and None when it is not.
C7_ModeResolution ==
    /\ pc \notin {"pkginit", "fatal"} =>
         wrapNetstack = IF envWrap # "" THEN ParseBool(envWrap).v
                        ELSE distro = "synology"
                             \/ goos \in {"windows", "darwin", "freebsd"}
    /\ NetstackResolved =>
         Mode = IF attempts[Len(attempts)] = <<UserspaceNetworking>>
                THEN "FullTakeover"
                ELSE IF wrapNetstack THEN "SubnetOnly" ELSE "None"

\* C7 witness: the override disables wrapping on a platform whose default
\* enables it, "userspace-networking" is selected, and the stack has taken
\* over.
C7_Witness ==
    /\ envWrap = "0"
    /\ goos = "freebsd"
    /\ NetstackResolved
    /\ attempts[Len(attempts)] = <<UserspaceNetworking>>
    /\ Mode = "FullTakeover"

\* C8: once a signal is in the channel or ctx is cancelled while
\* ipnserver.Run is running, the process ends: stopped with exit status 0,
\* unless the server returned an error other than context.Canceled (stopped
\* with that error) or the SOCKS5 goroutine ended the process with
\* log.Fatalf.
C8_SignalStops ==
    (pc = "inServer" /\ (interrupt > 0 \/ ctxDone))
        ~> \/ pc = "stopped" /\ exitCode = 0
           \/ pc = "stopped" /\ err \notin {Nil, Canceled}
           \/ pc = "fatal"

\* C8 witness: after a signal the server has returned context.Canceled, the
\* log uploads were blocked, pol.Shutdown ended at its deadline and the
\* process has exited with status 0.
C8_Witness ==
    /\ pc = "stopped"
    /\ exitCode = 0
    /\ cancelCalls = 1
    /\ err = Canceled
    /\ flushHow = "deadline"

\* C9: cancel is called at most once, the deferred Shutdown runs at most
\* once, and no resource is closed twice.
C9_TeardownOnce ==
    /\ cancelCalls <= 1
    /\ flushed <= 1
    /\ \A i, j \in 1..Len(closeLog) : closeLog[i] = closeLog[j] => i = j
    /\ cancelCalls = 1 <=> ctxDone

\* C9 witness: a second signal has arrived after the watcher took the first
\* and called cancel, the server has returned and the process has stopped.
C9_Witness ==
    /\ cancelCalls = 1
    /\ interrupt = 1
    /\ watcher = "done"
    /\ server = "returned"
    /\ pc = "stopped"

\* errors.Is(x, context.Canceled)
IsCancellation(x) == x = Canceled \/ x = WrappedCanceled

\* C10: when the server has returned and the process has stopped, the exit
\* status is 0 for nil and for every error caused by the cancellation, and
\* non-zero with the error logged for every other error.
C10_ExitCode ==
    (pc = "stopped" /\ server = "returned") =>
        IF err = Nil \/ IsCancellation(err)
        THEN exitCode = 0
        ELSE exitCode # 0 /\ Logged("ipnserver.Run")

\* C11: the SOCKS5 server, created after the engine, holds the engine wrapped
\* by the watchdog, never the engine as createEngine returned it.
C11_ProxyHoldsWatchdog ==
    socksSrv # Nil => socksSrv.e.kind = "watchdog"

\* C12: ipnserver.Run is given the watchdog around the engine createEngine
\* returned, and from the wrapping on the engine variable of run is that
\* watchdog: run has no other handle on the engine.
C12_ServerGetsWatchdog ==
    /\ server # "none" =>
         /\ serverEngine.kind = "watchdog"
         /\ serverEngine.inner.kind = "engine"
         /\ serverEngine.inner.at = Len(attempts)
         /\ e = serverEngine
    /\ pc \in {"notify", "goWatcher", "ipnRun", "inServer"} =>
         e.kind = "watchdog" /\ e.inner.kind = "engine"

\* C12 witness: the server is running a watchdog whose engine came from the
\* second candidate.
C12_Witness ==
    /\ server = "running"
    /\ serverEngine.kind = "watchdog"
    /\ serverEngine.inner.at = 2
    /\ e = serverEngine

\* C13: with --tun=userspace-networking and a --socks5-server address, when
\* the server is running the netstack is started over the engine with
\* onlySubnets false, whatever wrapNetstack is, and the SOCKS5 server is
\* serving over that engine and that netstack.
C13_UserspaceWithProxy ==
    (/\ tunname = <<UserspaceNetworking>>
     /\ socksAddr # ""
     /\ server # "none") =>
        /\ ns = [kind |-> "netstack", e |-> Engine(serverEngine),
                 onlySubnets |-> FALSE]
        /\ Engine(serverEngine).kind = "engine"
        /\ Engine(serverEngine).conf.Tun = Nil
        /\ socksListener # Nil
        /\ socksSrv = [kind |-> "tssocks", e |-> Engine(serverEngine), ns |-> ns]

\* C13 witness: on a platform whose default wraps, the server is running for
\* --tun=userspace-networking with a SOCKS5 server.
C13_Witness ==
    /\ tunname = <<UserspaceNetworking>>
    /\ socksAddr # ""
    /\ envWrap = ""
    /\ goos = "freebsd"
    /\ wrapNetstack
    /\ server = "running"
    /\ socksSrv # Nil
    /\ ns # Nil

\* C14: when router.New has failed in an attempt, the device of that attempt
\* has been closed exactly once and is not open, the error createEngine
\* collected for the attempt is the router's, and the attempt has called
\* nothing but tstun.New and router.New.
C14_RouterFailureClosesDevice ==
    \A i \in 1..Len(calls) :
        (calls[i].op = "router.New" /\ ~calls[i].ok) =>
            LET k == calls[i].at
                d == [kind |-> "tun", at |-> k]
            IN  /\ Cardinality({j \in 1..Len(closeLog) : closeLog[j] = d}) = 1
                /\ d \notin open
                /\ Len(errs) >= k
                /\ errs[k] = [kind |-> "error", op |-> "router.New", at |-> k]
                /\ \A j \in 1..Len(calls) :
                     calls[j].at = k => calls[j].op \in {"tstun.New", "router.New"}
                /\ i > 1
                /\ calls[i - 1].op = "tstun.New" /\ calls[i - 1].ok
                /\ calls[i - 1].at = k

\* C14 witness: router.New failed in the first attempt, its device was
\* closed, and the second candidate is being tried.
C14_Witness ==
    /\ Len(attempts) = 2
    /\ \E i \in 1..Len(calls) :
         calls[i].op = "router.New" /\ ~calls[i].ok /\ calls[i].at = 1
    /\ closeLog = <<[kind |-> "tun", at |-> 1]>>
    /\ [kind |-> "tun", at |-> 2] \in open

\* C15: when dns.NewOSConfigurator has failed in an attempt, neither the
\* router nor the device of that attempt is open any more.
C15_DNSFailureReleases ==
    \A i \in 1..Len(calls) :
        (calls[i].op = "dns.NewOSConfigurator" /\ ~calls[i].ok) =>
            /\ [kind |-> "router", at |-> calls[i].at] \notin open
            /\ [kind |-> "tun", at |-> calls[i].at] \notin open

\* The order of the constructor calls in an attempt for candidate n.
CallOrder(n) ==
    IF n = <<UserspaceNetworking>> THEN <<"wgengine.NewUserspaceEngine">>
    ELSE IF Len(n) >= 1 /\ n[1] = TapPrefix
    THEN <<"tstun.New", "wgengine.NewUserspaceEngine">>
    ELSE <<"tstun.New", "router.New", "dns.NewOSConfigurator",
           "wgengine.NewUserspaceEngine">>

\* The constructor calls of attempt k, in order.
CallsOf(k) ==
    LET At(c) == c.at = k IN SelectSeq(calls, At)

\* C16: the attempts are one after the other and one per candidate: the
\* k-th attempt is for the k-th candidate of the list, the calls of an
\* attempt are not interleaved with another's, every attempt but the last
\* has ended in a failed call, all candidates have been attempted when
\* createEngine returns the aggregate error, and the calls of an attempt are
\* an initial part of device, router, DNS configurator, engine, each made
\* once and only after the one before it succeeded.
C16_SequentialSingleShot ==
    /\ Len(attempts) <= Len(names)
    /\ \A k \in 1..Len(attempts) : attempts[k] = names[k]
    /\ \A i \in 1..(Len(calls) - 1) : calls[i].at <= calls[i + 1].at
    /\ \A k \in 1..Len(attempts) :
         LET cs == CallsOf(k)
             order == CallOrder(attempts[k])
         IN  /\ Len(cs) <= Len(order)
             /\ \A j \in 1..Len(cs) :
                  /\ cs[j].op = order[j]
                  /\ j < Len(cs) => cs[j].ok
             /\ k < Len(attempts) => (Len(cs) >= 1 /\ ~cs[Len(cs)].ok)
    /\ pc \in {"tstunNew", "routerNew", "dnsNew", "newEngine", "newEngineTAP"} =>
         idx = Len(attempts)
    /\ err.kind = "multierror" => Len(attempts) = Len(names)

\* C16 witness: after a failed first attempt the second, over a kernel IP
\* tunnel, has acquired device, router and DNS configurator and created the
\* engine.
C16_Witness ==
    /\ Len(attempts) = 2
    /\ KernelIP(attempts[2])
    /\ Len(CallsOf(2)) = 4
    /\ CallsOf(2)[4].ok
    /\ ~CallsOf(1)[Len(CallsOf(1))].ok

\* The engines now live.
LiveEngines == {x \in open : x.kind = "engine"}

\* C17: at most one engine is live; none is live while createEngine has
\* returned no engine, and a failed engine constructor leaves none; from the
\* start of the server on, exactly the engine under the server's watchdog is
\* live.
C17_OneLiveEngine ==
    /\ Cardinality(LiveEngines) <= 1
    /\ e = Nil => LiveEngines = {}
    /\ \A i \in EngineCalls :
         ~calls[i].ok => [kind |-> "engine", at |-> calls[i].at] \notin open
    /\ server # "none" =>
         LiveEngines = {[kind |-> "engine", at |-> Engine(serverEngine).at]}

\* C17 witness: the engine constructor failed for the first candidate, the
\* second candidate's engine is the one live engine and the server runs it.
C17_Witness ==
    /\ server = "running"
    /\ LiveEngines = {[kind |-> "engine", at |-> 2]}
    /\ \E i \in EngineCalls : calls[i].at = 1 /\ ~calls[i].ok

\* createEngine has returned an error to run.
CreateEngineFailed == runErr # Nil /\ server = "none"

\* C18: a netstack or a SOCKS5 server exists only when createEngine has
\* returned an engine, which is live; the SOCKS5 server exists only with the
\* netstack run needs, and holds it; when createEngine has failed there is
\* neither, the error is logged and is what run returns, and the exit
\* status is 1.
C18_BridgeAndProxyAfterEngine ==
    /\ (ns # Nil \/ socksSrv # Nil) =>
         /\ e # Nil
         /\ Engine(e).kind = "engine"
         /\ [kind |-> "engine", at |-> Engine(e).at] \in open
         /\ err = Nil \/ server = "returned"
    /\ socksSrv # Nil =>
         /\ (useNetstack \/ wrapNetstack) => ns # Nil
         /\ socksSrv.ns = ns
    /\ CreateEngineFailed =>
         /\ ns = Nil
         /\ socksSrv = Nil
         /\ e = Nil
         /\ runErr = err
         /\ Logged("wgengine.New")
         /\ pc = "stopped" => exitCode = 1

\* C18 witness: every candidate failed with a SOCKS5 listener open and a
\* platform that wraps; run has returned the error and the process has
\* stopped without a netstack or a SOCKS5 server.
C18_Witness ==
    /\ CreateEngineFailed
    /\ err.kind = "multierror"
    /\ socksListener # Nil
    /\ wrapNetstack
    /\ pc = "stopped"
    /\ exitCode = 1

BridgeRequired == useNetstack \/ wrapNetstack

\* C20: when the server is started and run needs a netstack, the netstack
\* has been created and started over the engine; when it is not needed there
\* is none; a failure of netstack.Create or of Start has ended the process
\* with status 1 before the watchdog was applied and before the server ran.
C20_NoPartialBridge ==
    /\ server # "none" =>
         IF BridgeRequired
         THEN ns = [kind |-> "netstack", e |-> Engine(serverEngine),
                    onlySubnets |-> wrapNetstack /\ ~useNetstack]
         ELSE ns = Nil
    /\ (Logged("netstack.Create") \/ Logged("failed to start netstack")) =>
         /\ pc = "fatal"
         /\ exitCode = 1
         /\ ns = Nil
         /\ e.kind = "engine"
         /\ server = "none"
         /\ socksSrv = Nil

\* C20 witness: ns.Start failed for a kernel candidate on a platform that
\* wraps, and the process has ended before the watchdog and the server.
C20_Witness ==
    /\ Logged("failed to start netstack")
    /\ wrapNetstack /\ ~useNetstack
    /\ pc = "fatal"
    /\ e.kind = "engine"
    /\ server = "none"

\* errors.New("no --tun value specified") of createEngine, line 343.
NoTunValue == [kind |-> "error", op |-> "no --tun value specified", at |-> 0]

\* Positions of the attempts of createEngine and of run after it has an
\* engine.
AfterEngineAttempt ==
    {"range", "tstunNew", "routerNew", "dnsNew", "newEngineTAP", "newEngine",
     "netstack", "socksServe", "watchdog", "notify", "goWatcher", "ipnRun",
     "inServer"}

\* C24: with an empty --tun value createEngine returns the error "no --tun
\* value specified" and no engine, without handing any candidate to
\* tryEngine and without a constructor call or an open resource; run logs and
\* returns that error, no netstack, SOCKS5 server or control server is
\* started, and the process stops with status 1.
C24_EmptyTunFails ==
    tunname = <<>> =>
        /\ attempts = <<>>
        /\ calls = <<>>
        /\ open = {}
        /\ closeLog = <<>>
        /\ e = Nil
        /\ ns = Nil /\ socksSrv = Nil /\ server = "none"
        /\ pc \notin AfterEngineAttempt
        /\ pc = "createEngineRet" => err = NoTunValue /\ ~useNetstack
        /\ err # Nil =>
             /\ err = NoTunValue
             /\ pc \in {"createEngineRet", "flushing", "stopped", "fatal"}
             /\ pc \in {"flushing", "stopped"} => runErr = err /\ Logged("wgengine.New")
             /\ pc = "stopped" => exitCode = 1

\* C24 witness: the --tun value was empty, createEngine has failed and the
\* process has stopped with status 1.
C24_Witness ==
    /\ tunname = <<>>
    /\ err = NoTunValue
    /\ runErr = NoTunValue
    /\ pc = "stopped"
    /\ exitCode = 1

\* The candidate of the last attempt.
LastAttempt == attempts[Len(attempts)]

\* C26: when createEngine has returned an engine, useNetstack is true exactly
\* when the candidate that produced it is "userspace-networking", whatever
\* the failed candidates before it were; when createEngine has returned an
\* error, useNetstack is false.
C26_UseNetstackOfWinner ==
    pc \notin {"pkginit", "main", "flags", "runPolicy", "run", "socksListen", "createEngine",
               "range", "tstunNew", "routerNew", "dnsNew", "newEngineTAP",
               "newEngine"} =>
        /\ e # Nil => /\ attempts # <<>>
                      /\ useNetstack <=> IsUserspaceNetworking(LastAttempt)
        /\ (e = Nil /\ err # Nil /\ server = "none") => ~useNetstack

\* C26 witness: "userspace-networking" failed, the kernel candidate after it
\* produced the engine, and useNetstack is false.
C26_Witness ==
    /\ pc = "createEngineRet"
    /\ e # Nil
    /\ Len(attempts) = 2
    /\ IsUserspaceNetworking(attempts[1])
    /\ ~IsUserspaceNetworking(attempts[2])
    /\ ~useNetstack

\* C27: a netstack started with onlySubnets true serves an engine whose
\* configuration has a Router wrapped by NewSubnetRouterWrapper, whatever
\* kind of candidate produced the engine, tap: candidates included.
C27_SubnetOnlyHasWrappedRouter ==
    (ns # Nil /\ ns.onlySubnets) =>
        Engine(ns.e).conf.Router.kind = "subnetRouterWrapper"

\* C27 as the code has it: a netstack started with onlySubnets true serves an
\* engine of a kernel candidate whose Router is wrapped by
\* NewSubnetRouterWrapper, or an engine of a tap: candidate, which has no
\* Router at all.
C27_SubnetOnlyRouter ==
    (ns # Nil /\ ns.onlySubnets) =>
        LET c == Engine(ns.e).conf IN
        IF c.IsTAP
        THEN c.Router = Nil /\ HasTapPrefix(LastAttempt)
        ELSE c.Router.kind = "subnetRouterWrapper" /\ KernelIP(LastAttempt)

\* C27 witness: the netstack was started with onlySubnets true over the
\* engine of a kernel candidate, and the server runs.
C27_Witness ==
    /\ ns # Nil
    /\ ns.onlySubnets
    /\ ~Engine(ns.e).conf.IsTAP
    /\ Engine(ns.e).conf.Router.kind = "subnetRouterWrapper"
    /\ server = "running"

\* C21: pol.Shutdown is called at most once, and a process that ends after
\* the log policy was made has called it exactly once and has seen it return,
\* on every path on which the process ends.
C21_FlushOnEveryExit ==
    /\ flushed <= 1
    /\ (exitCode # -1 /\ pol # Nil) =>
         /\ flushed = 1
         /\ flushHow \in {"done", "deadline"}

\* runWindowsService has been called.
ServiceRan == \E i \in 1..Len(entryCalls) : entryCalls[i].name = "runWindowsService"

\* C22: a process started as the Windows service that has entered run has
\* called runWindowsService, once, and nothing else of run: there is no
\* LinkMonitor, SOCKS5 listener or server, attempt of a candidate, engine,
\* watchdog, netstack, signal registration, watcher goroutine or
\* ipnserver.Run; run returns nil whatever the service returned, and the
\* process stops with status 0. runWindowsService is called in no other
\* process.
C22_ServiceOnly ==
    /\ (service /\ pol # Nil) =>
         /\ Len(entryCalls) = 1
         /\ entryCalls[1].name = "runWindowsService"
         /\ Logged("Service ended.")
         /\ entryCalls[1].failed <=> Logged("runservice")
         /\ linkMon = Nil
         /\ socksListener = Nil /\ socksSrv = Nil
         /\ attempts = <<>> /\ calls = <<>> /\ open = {}
         /\ e = Nil
         /\ ns = Nil
         /\ ~notified /\ watcher = "none" /\ cancelCalls = 0
         /\ server = "none"
         /\ runErr = Nil
         /\ pc \in {"flushing", "stopped"}
         /\ pc = "stopped" => exitCode = 0
    /\ ServiceRan => service

\* C22 witness: the service has failed, which was only logged, and the
\* process has stopped with status 0.
C22_Witness ==
    /\ service
    /\ ServiceRan
    /\ entryCalls[1].failed
    /\ pc = "stopped"
    /\ exitCode = 0

\* C23: when the first argument is a key of subCommands, run is never
\* entered and the process ends in main; a nil handler is reported by
\* log.Fatalf with status 1 and nothing is called; a handler that is set is
\* called, once and alone, and the status is 1 when it returns an error and
\* 0 when it returns nil.
C23_SubcommandOnly ==
    sub \in SubCommandNames =>
        /\ pol = Nil /\ linkMon = Nil /\ flushed = 0
        /\ socksListener = Nil /\ attempts = <<>> /\ e = Nil /\ ns = Nil
        /\ ~notified /\ server = "none"
        /\ pc \in {"fatal", "exited"}
        /\ fp \in {"nil", "set"}
        /\ fp = "nil" =>
             /\ entryCalls = <<>>
             /\ logs = <<"not available">>
             /\ pc = "fatal" /\ exitCode = 1
        /\ fp = "set" =>
             /\ Len(entryCalls) = 1
             /\ entryCalls[1].name = sub
             /\ IF entryCalls[1].failed
                THEN pc = "fatal" /\ exitCode = 1 /\ logs = <<"subcommand failed">>
                ELSE pc = "exited" /\ exitCode = 0 /\ logs = <<>>

\* C23 witness: install-system-daemon has no handler on the platform; the
\* process has ended with status 1 and nothing was called.
C23_Witness ==
    /\ sub = "install-system-daemon"
    /\ fp = "nil"
    /\ entryCalls = <<>>
    /\ pc = "fatal"
    /\ exitCode = 1

\* C28: a signal delivered after signal.Notify and before ipnserver.Run is
\* called stays in the channel until the watcher goroutine takes it, however
\* the two goroutines interleave: ctx is cancelled, ipnserver.Run returns,
\* and the process stops with status 0, unless the server returns an error
\* that is not context.Canceled itself or the SOCKS5 serve goroutine ends the
\* process first.
C28_EarlySignalStops ==
    (notified /\ interrupt > 0 /\ pc \in {"goWatcher", "ipnRun"})
        ~> (\/ pc = "stopped" /\ exitCode = 0 /\ server = "returned"
            \/ pc = "stopped" /\ err \notin {Nil, Canceled}
            \/ pc = "fatal")

\* C28 witness: the watcher goroutine has taken the signal and cancelled ctx
\* before ipnserver.Run is called.
C28_Witness ==
    /\ pc = "ipnRun"
    /\ ctxDone
    /\ cancelCalls = 1
    /\ server = "none"

\* The state file is missing or has no bytes.
EmptyOrAbsent(f) == f.kind = "absent" \/ (f.kind = "file" /\ f.size = 0)

\* C25: on Synology, trySynologyMigration has looked at the old path
\* whenever the new state file was empty or missing, and has moved the old
\* file to the new path when it was there and chown and rename succeeded;
\* when the new state file was there with bytes in it, nothing but the
\* os.Stat of it was done and the files are as they were.
C25_MigratesWhenEmptyOrAbsent ==
    (goos = "linux" /\ distro = "synology" /\ migPc = "ret") =>
        /\ EmptyOrAbsent(fs0.new) =>
             /\ Len(fsOps) >= 2 /\ fsOps[2] = "stat old"
             /\ (fs0.old.kind = "file" /\ migRet = Nil) =>
                  fs = [new |-> [fs0.old EXCEPT !.owner = "self"], old |-> Absent]
        /\ (fs0.new.kind = "file" /\ fs0.new.size > 0) =>
             /\ fsOps = <<"stat new">>
             /\ fs = fs0
             /\ migRet = Nil

\* C29: when chirp.New has returned, either it has returned a client and no
\* error, the connection is open and the welcome line is no longer in the
\* input, or it has returned an error and no client, and no connection is
\* open.
C29_NewLeavesNoConnection ==
    /\ (chirpPc = "ready" /\ birdIn = <<>> /\ conn # "closed") =>
         /\ b # Nil
         /\ chirpRet = Nil
         /\ conn = "open"
         /\ Len(birdOut) < MaxBirdLines
    /\ chirpPc = "failed" =>
         /\ b = Nil
         /\ chirpRet # Nil
         /\ conn # "open"
====
